---- MODULE Spec2Model ----
\* Model of the Monster Animator client: the key endpoint (serverless handler
\* and Express route), the service module (getApiKey, initializeApp,
\* generateVideoFromImage) and the App component's handlers.
\*
\* JavaScript strings that the code searches with String.includes are modelled
\* as sequences of fragments; includes is a contiguous-subsequence test.  Keys,
\* URLs and the other strings the code only tests for truthiness are TLA+
\* strings, with NULL and UNDEFINED as distinguished values.
EXTENDS Integers, Sequences, FiniteSets, TLC

\* ---------------------------------------------------------------- bounds
\* Number of poll responses of one submission that may report "not done".
MaxPolls == 2
\* Number of generations a session submits.
MaxSubmissions == 2

\* ------------------------------------------------------- JavaScript values
NULL == "<null>"
UNDEFINED == "<undefined>"

\* JavaScript truthiness of a string | null | undefined value.
Truthy(v) == v \notin {NULL, UNDEFINED, ""}

\* Truthiness of a message (a sequence of fragments): "" is falsy.
TruthyMsg(m) == m # << >>

\* String.prototype.includes on fragment sequences.
Includes(s, needle) ==
    \E i \in 0..(Len(s) - Len(needle)) : SubSeq(s, i + 1, i + Len(needle)) = needle

\* Property access on the value generateVideoFromImage resolves with.
Prop(v, name) ==
    IF v.t = "object" /\ name \in DOMAIN v.props THEN v.props[name] ELSE UNDEFINED

\* --------------------------------------------------------------- messages
MSG_DEV_KEY_MISSING == <<"DEV_KEY_MISSING">>
MSG_CONNECT == <<"Could not connect to the server to get the API key. Please check the server logs.">>
MSG_NO_KEY == <<"Server responded but did not provide an API key.">>
MSG_FETCH_REJECTED == <<"Failed to fetch">>
MSG_NOT_INITIALIZED == <<"Application is not initialized. Please select an API key if prompted.">>
MSG_NO_LINK == <<"Video generation failed to produce a download link.">>
MSG_NO_PROMPT == <<"Please provide a prompt to animate your monster!">>
MSG_NO_IMAGE == <<"Please upload an image of your monster first!">>
MSG_NOT_READY == <<"The application is not ready. Please select an API key if prompted.">>
MSG_INVALID_KEY == <<"The selected API key appears to be invalid. Please select another key.">>
MSG_UNKNOWN == <<"An unknown error occurred.">>
MSG_INIT_UNEXPECTED == <<"An unexpected error occurred during initialization.">>
MSG_SELECTOR == <<"Could not open the API key selector. Please try again.">>
NOT_FOUND == <<"Requested entity was not found.">>
PERMISSION == <<"permission">>
NoError == <<NULL>>

LOADING_MESSAGES ==
    << <<"Summoning creative spirits...">>,
       <<"Teaching your monster to dance...">>,
       <<"Coloring in the animation cells...">>,
       <<"Adding a sprinkle of magic...">>,
       <<"Checking the monster rulebook...">>,
       <<"Reticulating splines...">>,
       <<"Polishing the final frames...">> >>
MSG_WAKING == <<"Waking up the monster...">>
MSG_INITIALIZING == <<"Initializing animation sequence...">>
MSG_PORTAL == <<"The animation portal is open. Generating video...">>
MSG_FINALIZING == <<"Finalizing your video...">>

\* Milliseconds of the poll loop's setTimeout and of the rotation setInterval.
POLL_INTERVAL_MS == 10000
ROTATE_INTERVAL_MS == 5000

\* ------------------------------------------------- the remote and its inputs
Keys == {"k1", "k2"}

\* Messages of the errors the remote SDK calls reject with.
RemoteErrors ==
    { NOT_FOUND,
      <<"The caller does not have ">> \o PERMISSION,
      <<"Quota exceeded">>,
      << >> }

\* Responses of the download request: ok, non-OK with a status text and a
\* body, or a rejected fetch.
DownloadResponses ==
    { [kind |-> "ok", statusText |-> "OK", body |-> << >>],
      [kind |-> "nonok", statusText |-> "Forbidden", body |-> PERMISSION \o <<" denied">>],
      [kind |-> "nonok", statusText |-> "Not Found", body |-> NOT_FOUND],
      [kind |-> "rejected", statusText |-> "", body |-> << >>] }

NoOperation == [name |-> UNDEFINED, done |-> FALSE, seq |-> 0, uri |-> UNDEFINED]
NoRequest == [operation |-> NoOperation, apiKey |-> UNDEFINED]
NoResponse == [status |-> 0, body |-> [apiKey |-> UNDEFINED, error |-> UNDEFINED]]
NoFail == [at |-> -1, msg |-> << >>]
NoDownload == [link |-> UNDEFINED, key |-> UNDEFINED]
NoValue == [t |-> "undefined", s |-> "", props |-> << >>]
NoResult == [kind |-> "none", msg |-> << >>, value |-> NoValue]
NoCall == [threw |-> FALSE, msg |-> << >>, value |-> UNDEFINED, apiKey |-> NULL, fetched |-> FALSE]

VARIABLES
    aistudio,           \* window.aistudio is present
    envApiKey,          \* process.env.API_KEY of the client (AI Studio)
    keySelected,        \* AI Studio: what hasSelectedApiKey answers
    justSelected,       \* a key was picked in openSelectKey and no call was made since
    serverEnvKey,       \* process.env.GEMINI_API_KEY of the server
    expressApiKey,      \* the Express server's module constant apiKey
    vercelRes,          \* last response of the serverless handler
    expressRes,         \* last response of the Express route
    apiKey,             \* service module: cached key
    isInitialized,      \* service module: initialised flag
    appState, error, isLoading, loadingMessage,
    generatedVideoUrl, generatedVideoBlob, imageBase64, prompt,
    pc,                 \* position of the generateVideoFromImage call
    key,                \* its local: the resolved credential
    operation,          \* its local: the operation handle
    intervals,          \* active setInterval timers: [id, messageIndex]
    waited,             \* ms elapsed of the poll loop's pending setTimeout
    submissions,        \* generateVideoFromImage calls started
    pollsIssued,        \* getVideosOperation requests of this submission
    pollReq,            \* the last getVideosOperation request
    downloadReq,        \* the last download request
    remoteLast,         \* the handle the remote sent last
    subReqs,            \* remote requests issued by this submission
    subFail,            \* this submission's first failure: [at |-> subReqs then, msg]
    fetchCount,         \* requests the client issued to /api/get-key
    getKeyCalls,        \* getApiKey calls made
    lastGet,            \* outcome of the last getApiKey call
    lastResult          \* what the last settled generateVideoFromImage did

vars == << aistudio, envApiKey, keySelected, justSelected, serverEnvKey, expressApiKey, vercelRes, expressRes,
           apiKey, isInitialized, appState, error, isLoading, loadingMessage,
           generatedVideoUrl, generatedVideoBlob, imageBase64, prompt,
           pc, key, operation, intervals, waited, submissions, pollsIssued,
           pollReq, downloadReq, remoteLast, subReqs, subFail,
           fetchCount, getKeyCalls, lastGet, lastResult >>

envVars == << aistudio, keySelected, justSelected, serverEnvKey, expressApiKey >>
serverEnv == << aistudio, serverEnvKey, expressApiKey >>
serverVars == << vercelRes, expressRes >>
uiInputVars == << imageBase64, prompt >>
videoVars == << generatedVideoUrl, generatedVideoBlob >>
keyGhostVars == << fetchCount, getKeyCalls, lastGet >>

\* ------------------------------------------------------- the key endpoint
ERR_NOT_CONFIGURED == "GEMINI_API_KEY is not configured on the server."

\* Variant of VercelHandler that forgets res.status(500) in the else branch.
VercelHandler_NoStatus(envKey) ==
    IF Truthy(envKey)
    THEN [status |-> 200, body |-> [apiKey |-> envKey, error |-> UNDEFINED]]
    ELSE [status |-> 200, body |-> [apiKey |-> UNDEFINED, error |-> ERR_NOT_CONFIGURED]]

\* api/get-key.js: the serverless handler, reading the environment per request.
VercelHandler(envKey) ==
    IF Truthy(envKey)
    THEN [status |-> 200, body |-> [apiKey |-> envKey, error |-> UNDEFINED]]
    ELSE [status |-> 500, body |-> [apiKey |-> UNDEFINED, error |-> ERR_NOT_CONFIGURED]]

\* server.js: the Express route, using the constant read at start-up.
ExpressRoute(moduleKey) ==
    IF Truthy(moduleKey)
    THEN [status |-> 200, body |-> [apiKey |-> moduleKey, error |-> UNDEFINED]]
    ELSE [status |-> 500, body |-> [apiKey |-> UNDEFINED, error |-> ERR_NOT_CONFIGURED]]

\* What fetch('/api/get-key') can come back with: the response of whichever
\* handler is deployed, a gateway error, a 200 without a key, or a rejection
\* (status 0).
FetchOutcomes == {"vercel", "express", "gateway", "empty", "rejected"}

FetchResponse(o) ==
    CASE o = "vercel" -> VercelHandler(serverEnvKey)
      [] o = "express" -> ExpressRoute(expressApiKey)
      [] o = "gateway" -> [status |-> 502, body |-> [apiKey |-> UNDEFINED, error |-> "Bad Gateway"]]
      [] o = "empty" -> [status |-> 200, body |-> [apiKey |-> UNDEFINED, error |-> UNDEFINED]]
      [] OTHER -> NoResponse

\* Response.ok
ResponseOk(resp) == resp.status >= 200 /\ resp.status <= 299

\* A GET of /api/get-key reaches the deployed handler, which answers it.
ServerSees(fetched, o, resp) ==
    /\ vercelRes' = IF fetched /\ o = "vercel" THEN resp ELSE vercelRes
    /\ expressRes' = IF fetched /\ o = "express" THEN resp ELSE expressRes

\* ----------------------------------------------------- the service module
\* Variant of getApiKey that never consults the cache in production.
getApiKey_NoCache(studio, envKey, cache, resp) ==
    IF studio
    THEN IF ~Truthy(envKey)
         THEN [threw |-> TRUE, msg |-> MSG_DEV_KEY_MISSING, value |-> UNDEFINED,
               apiKey |-> cache, fetched |-> FALSE]
         ELSE [threw |-> FALSE, msg |-> << >>, value |-> envKey,
               apiKey |-> cache, fetched |-> FALSE]
    ELSE IF resp.status = 0
         THEN [threw |-> TRUE, msg |-> MSG_FETCH_REJECTED, value |-> UNDEFINED,
               apiKey |-> cache, fetched |-> TRUE]
    ELSE IF ~ResponseOk(resp)
         THEN [threw |-> TRUE, msg |-> MSG_CONNECT, value |-> UNDEFINED,
               apiKey |-> cache, fetched |-> TRUE]
    ELSE IF ~Truthy(resp.body.apiKey)
         THEN [threw |-> TRUE, msg |-> MSG_NO_KEY, value |-> UNDEFINED,
               apiKey |-> cache, fetched |-> TRUE]
    ELSE [threw |-> FALSE, msg |-> << >>, value |-> resp.body.apiKey,
          apiKey |-> resp.body.apiKey, fetched |-> TRUE]

\* getApiKey: the outcome of one call, given the response its fetch (if it
\* issues one) comes back with.  apiKey is the cache after the call.
getApiKey(studio, envKey, cache, resp) ==
    IF studio
    THEN IF ~Truthy(envKey)
         THEN [threw |-> TRUE, msg |-> MSG_DEV_KEY_MISSING, value |-> UNDEFINED,
               apiKey |-> cache, fetched |-> FALSE]
         ELSE [threw |-> FALSE, msg |-> << >>, value |-> envKey,
               apiKey |-> cache, fetched |-> FALSE]
    ELSE IF Truthy(cache)
         THEN [threw |-> FALSE, msg |-> << >>, value |-> cache,
               apiKey |-> cache, fetched |-> FALSE]
    ELSE IF resp.status = 0
         THEN [threw |-> TRUE, msg |-> MSG_FETCH_REJECTED, value |-> UNDEFINED,
               apiKey |-> cache, fetched |-> TRUE]
    ELSE IF ~ResponseOk(resp)
         THEN [threw |-> TRUE, msg |-> MSG_CONNECT, value |-> UNDEFINED,
               apiKey |-> cache, fetched |-> TRUE]
    ELSE IF ~Truthy(resp.body.apiKey)
         THEN [threw |-> TRUE, msg |-> MSG_NO_KEY, value |-> UNDEFINED,
               apiKey |-> cache, fetched |-> TRUE]
    ELSE [threw |-> FALSE, msg |-> << >>, value |-> resp.body.apiKey,
          apiKey |-> resp.body.apiKey, fetched |-> TRUE]

\* Variant of initializeApp whose catch block re-throws DEV_KEY_MISSING too.
initializeApp_Rethrows(studio, hasKey, inited, get) ==
    IF studio /\ ~hasKey
    THEN [threw |-> FALSE, msg |-> << >>, ret |-> FALSE, isInitialized |-> FALSE,
          called |-> FALSE]
    ELSE IF ~get.threw
         THEN [threw |-> FALSE, msg |-> << >>, ret |-> TRUE, isInitialized |-> TRUE,
               called |-> TRUE]
    ELSE [threw |-> TRUE, msg |-> get.msg, ret |-> FALSE, isInitialized |-> inited,
          called |-> TRUE]

\* initializeApp: the outcome of the call.  get is the outcome of its
\* getApiKey call, called tells whether that call was made.
initializeApp(studio, hasKey, inited, get) ==
    IF studio /\ ~hasKey
    THEN [threw |-> FALSE, msg |-> << >>, ret |-> FALSE, isInitialized |-> FALSE,
          called |-> FALSE]
    ELSE IF ~get.threw
         THEN [threw |-> FALSE, msg |-> << >>, ret |-> TRUE, isInitialized |-> TRUE,
               called |-> TRUE]
    ELSE IF get.msg = MSG_DEV_KEY_MISSING
         THEN [threw |-> FALSE, msg |-> << >>, ret |-> FALSE, isInitialized |-> FALSE,
               called |-> TRUE]
    ELSE [threw |-> TRUE, msg |-> get.msg, ret |-> FALSE, isInitialized |-> inited,
          called |-> TRUE]

\* The outcome of a getApiKey call recorded for observation.
RecordGet(called, get) ==
    /\ getKeyCalls' = IF called THEN getKeyCalls + 1 ELSE getKeyCalls
    /\ fetchCount' = IF called /\ get.fetched THEN fetchCount + 1 ELSE fetchCount
    /\ lastGet' = IF called THEN get ELSE lastGet

\* --------------------------------------------------------- the App component
Init ==
    /\ aistudio \in BOOLEAN
    /\ envApiKey \in IF aistudio THEN {UNDEFINED, "k1"} ELSE {UNDEFINED}
    /\ keySelected \in IF aistudio THEN BOOLEAN ELSE {FALSE}
    /\ justSelected = FALSE
    /\ serverEnvKey \in IF aistudio THEN {UNDEFINED} ELSE {UNDEFINED, "", "k1"}
    /\ expressApiKey = serverEnvKey
    /\ vercelRes = NoResponse
    /\ expressRes = NoResponse
    /\ apiKey = NULL
    /\ isInitialized = FALSE
    /\ appState = "initializing"
    /\ error = NoError
    /\ isLoading = FALSE
    /\ loadingMessage = MSG_WAKING
    /\ generatedVideoUrl = NULL
    /\ generatedVideoBlob = NULL
    /\ imageBase64 = NULL
    /\ prompt = "Animate this hand-drawn monster"
    /\ pc = "idle"
    /\ key = UNDEFINED
    /\ operation = NoOperation
    /\ intervals = {}
    /\ waited = 0
    /\ submissions = 0
    /\ pollsIssued = 0
    /\ pollReq = NoRequest
    /\ downloadReq = NoDownload
    /\ remoteLast = NoOperation
    /\ subReqs = 0
    /\ subFail = NoFail
    /\ fetchCount = 0
    /\ getKeyCalls = 0
    /\ lastGet = NoCall
    /\ lastResult = NoResult

\* The mount effect: init() awaits initializeApp and sets appState.
InitEffect ==
    /\ appState = "initializing"
    /\ \E o \in FetchOutcomes :
         LET resp == FetchResponse(o)
             get == getApiKey(aistudio, envApiKey, apiKey, resp)
             r == initializeApp(aistudio, keySelected, isInitialized, get)
         IN /\ apiKey' = IF r.called THEN get.apiKey ELSE apiKey
            /\ isInitialized' = r.isInitialized
            /\ RecordGet(r.called, get)
            /\ ServerSees(r.called /\ get.fetched, o, resp)
            /\ IF r.threw
               THEN /\ error' = IF TruthyMsg(r.msg) THEN r.msg ELSE MSG_INIT_UNEXPECTED
                    /\ appState' = "error"
               ELSE /\ error' = error
                    /\ appState' = IF r.ret THEN "ready" ELSE "key_needed"
    /\ UNCHANGED << envVars, envApiKey, isLoading, loadingMessage, videoVars, uiInputVars,
                    pc, key, operation, intervals, waited, submissions, pollsIssued,
                    pollReq, downloadReq, remoteLast, subReqs, subFail, lastResult >>

\* The uploader hands the App an image; the effect stores its base64 form.
SelectImage ==
    /\ appState # "initializing"
    /\ ~isLoading
    /\ imageBase64 = NULL
    /\ imageBase64' = "img"
    /\ UNCHANGED << envVars, envApiKey, serverVars, apiKey, isInitialized, appState, error,
                    isLoading, loadingMessage, videoVars, prompt, pc, key, operation,
                    intervals, waited, submissions, pollsIssued, pollReq, downloadReq,
                    remoteLast, subReqs, subFail, keyGhostVars, lastResult >>

\* The textarea's onChange (the loading overlay covers the form while loading).
SetPrompt ==
    /\ appState # "initializing"
    /\ ~isLoading
    /\ \E p \in {"", "Animate this hand-drawn monster"} :
         /\ p # prompt
         /\ prompt' = p
    /\ UNCHANGED << envVars, envApiKey, serverVars, apiKey, isInitialized, appState, error,
                    isLoading, loadingMessage, videoVars, imageBase64, pc, key, operation,
                    intervals, waited, submissions, pollsIssued, pollReq, downloadReq,
                    remoteLast, subReqs, subFail, keyGhostVars, lastResult >>

\* The "Select API Key" button is rendered when appState is not 'ready'.
SelectKeyButtonShown == appState \in {"key_needed", "error"}

\* handleSelectApiKey: openSelectKey resolves after the user picked a key,
\* resolves after the dialog was dismissed, or rejects.
handleSelectApiKey ==
    /\ SelectKeyButtonShown
    /\ IF aistudio
       THEN \/ \E k \in Keys :
                 /\ keySelected' = TRUE
                 /\ justSelected' = TRUE
                 /\ envApiKey' = k
                 /\ appState' = "ready"
                 /\ error' = NoError
            \/ /\ appState' = "ready"
               /\ error' = NoError
               /\ UNCHANGED << keySelected, justSelected, envApiKey >>
            \/ /\ error' = MSG_SELECTOR
               /\ appState' = "error"
               /\ UNCHANGED << keySelected, justSelected, envApiKey >>
       ELSE UNCHANGED << keySelected, justSelected, envApiKey, appState, error >>
    /\ UNCHANGED << serverEnv, serverVars, apiKey, isInitialized, isLoading, loadingMessage,
                    videoVars, uiInputVars, pc, key, operation, intervals, waited,
                    submissions, pollsIssued, pollReq, downloadReq, remoteLast,
                    subReqs, subFail, keyGhostVars, lastResult >>

\* ------------------------------------------- generateVideoFromImage and its caller
\* Variant of GenerateButtonEnabled whose disabled attribute omits isLoading.
GenerateButtonEnabled_IgnoresLoading == appState = "ready" /\ Truthy(imageBase64)

\* The "Bring Monster to Life!" button: rendered when appState is 'ready',
\* disabled while there is no image or a generation is loading.
GenerateButtonEnabled == appState = "ready" /\ Truthy(imageBase64) /\ ~isLoading

\* Variant of InvalidatesKey that drops the 'permission' test.
InvalidatesKey_AnyError(studio, msg) == ~studio /\ TruthyMsg(msg)

\* Variant of InvalidatesKey that drops the isAiStudio test.
InvalidatesKey_AlsoStudio(studio, msg) == TruthyMsg(msg) /\ Includes(msg, PERMISSION)

\* The catch block of generateVideoFromImage: whether it invalidates the cache.
InvalidatesKey(studio, msg) == ~studio /\ TruthyMsg(msg) /\ Includes(msg, PERMISSION)

\* Variant of UiErrorFor without the invalid-key special case.
UiErrorFor_NoSpecialCase(msg) == IF TruthyMsg(msg) THEN msg ELSE MSG_UNKNOWN

\* The catch block of handleGenerateVideo: the error it shows and the appState
\* it leaves.
UiErrorFor(msg) ==
    IF TruthyMsg(msg) /\ Includes(msg, NOT_FOUND) THEN MSG_INVALID_KEY
    ELSE IF TruthyMsg(msg) THEN msg
    ELSE MSG_UNKNOWN

UiStateFor(msg, cur) ==
    IF TruthyMsg(msg) /\ Includes(msg, NOT_FOUND) THEN "key_needed" ELSE cur

\* Variant of LoopContinues that never looks at the done flag.
LoopContinues_Always(op) == TRUE

\* The while condition of the poll loop.
LoopContinues(op) == ~op.done

\* The download error's message, built from the response.
DownloadFailedMsg(r) ==
    <<"Failed to download the generated video. Status: ", r.statusText, ". Details: ">>
        \o r.body

\* What generateVideoFromImage resolves with: URL.createObjectURL's string.
ObjectUrl == [t |-> "string", s |-> "blob:video", props |-> << >>]

\* Variant of NotInitialized: the initialised check is missing.
NotInitialized_Unchecked(inited) == FALSE

\* The first statement of generateVideoFromImage: if (!isInitialized) throw.
NotInitialized(inited) == ~inited

\* A generateVideoFromImage call has settled: its locals are gone, no request
\* of it is in flight, and handleGenerateVideo's finally block has run.
Settled ==
    /\ pc' = "idle"
    /\ key' = UNDEFINED
    /\ operation' = NoOperation
    /\ remoteLast' = NoOperation
    /\ pollReq' = NoRequest
    /\ downloadReq' = NoDownload
    /\ pollsIssued' = 0
    /\ waited' = 0
    /\ isLoading' = FALSE

\* generateVideoFromImage rejects with msg after reqs remote requests; inTry
\* tells whether the throw is inside its try block.  handleGenerateVideo's
\* catch and finally follow.
Reject(msg, inTry, reqs) ==
    /\ Settled
    /\ apiKey' = IF inTry /\ InvalidatesKey(aistudio, msg) THEN NULL ELSE apiKey
    /\ isInitialized' = IF inTry /\ InvalidatesKey(aistudio, msg) THEN FALSE ELSE isInitialized
    /\ error' = UiErrorFor(msg)
    /\ appState' = UiStateFor(msg, appState)
    /\ lastResult' = [kind |-> "rejected", msg |-> msg, value |-> NoValue]
    /\ subReqs' = reqs
    /\ subFail' = [at |-> reqs, msg |-> msg]

\* generateVideoFromImage resolves with value; handleGenerateVideo stores
\* result.url and result.blob.
Resolve(value) ==
    /\ Settled
    /\ lastResult' = [kind |-> "resolved", msg |-> << >>, value |-> value]
    /\ generatedVideoUrl' = Prop(value, "url")
    /\ generatedVideoBlob' = Prop(value, "blob")
    /\ UNCHANGED << apiKey, isInitialized, error, appState, subReqs, subFail >>

\* The code after a creation or poll response op: the loop test, and past the
\* loop clearInterval, the download-link check and the download request.
\* timers are the intervals active when the test is made.
AfterResponse(op, timers) ==
    IF LoopContinues(op)
    THEN /\ operation' = op
         /\ remoteLast' = op
         /\ pollReq' = NoRequest
         /\ pc' = "wait"
         /\ waited' = 0
         /\ intervals' = timers
         /\ loadingMessage' = IF pc = "create" THEN MSG_PORTAL ELSE loadingMessage
         /\ UNCHANGED << key, downloadReq, pollsIssued, isLoading, apiKey, isInitialized,
                         error, appState, lastResult, subReqs, subFail >>
    ELSE /\ intervals' = { t \in timers : t.id # submissions }
         /\ loadingMessage' = MSG_FINALIZING
         /\ IF ~Truthy(op.uri)
            THEN Reject(MSG_NO_LINK, TRUE, subReqs)
            ELSE /\ operation' = op
                 /\ remoteLast' = op
                 /\ pollReq' = NoRequest
                 /\ pc' = "download"
                 /\ downloadReq' = [link |-> op.uri, key |-> key]
                 /\ subReqs' = subReqs + 1
                 /\ UNCHANGED << key, waited, pollsIssued, isLoading, apiKey, isInitialized,
                                 error, appState, lastResult, subFail >>

\* handleGenerateVideo up to the first await that leaves the client: the
\* handler's checks, the state resets, generateVideoFromImage's initialised
\* check and getApiKey call, and the generateVideos request.
handleGenerateVideo ==
    /\ GenerateButtonEnabled
    /\ submissions < MaxSubmissions
    /\ IF appState # "ready" \/ ~Truthy(imageBase64) \/ ~Truthy(prompt)
       THEN /\ error' = IF appState # "ready" THEN MSG_NOT_READY
                        ELSE IF ~Truthy(imageBase64) THEN MSG_NO_IMAGE
                        ELSE MSG_NO_PROMPT
            /\ UNCHANGED << serverVars, apiKey, isInitialized, appState, isLoading,
                            justSelected, loadingMessage, videoVars, pc, key, operation, waited,
                            submissions, pollsIssued, pollReq, downloadReq, remoteLast,
                            subReqs, subFail, keyGhostVars, lastResult >>
       ELSE /\ generatedVideoUrl' = NULL
            /\ generatedVideoBlob' = NULL
            /\ submissions' = submissions + 1
            /\ justSelected' = FALSE
            /\ IF NotInitialized(isInitialized)
               THEN /\ Reject(MSG_NOT_INITIALIZED, FALSE, 0)
                    /\ UNCHANGED << serverVars, loadingMessage, keyGhostVars >>
               ELSE \E o \in FetchOutcomes :
                      LET resp == FetchResponse(o)
                          get == getApiKey(aistudio, envApiKey, apiKey, resp)
                      IN /\ RecordGet(TRUE, get)
                         /\ ServerSees(get.fetched, o, resp)
                         /\ IF get.threw
                            THEN /\ Reject(get.msg, FALSE, 0)
                                 /\ UNCHANGED loadingMessage
                            ELSE /\ apiKey' = get.apiKey
                                 /\ key' = get.value
                                 /\ loadingMessage' = MSG_INITIALIZING
                                 /\ error' = NoError
                                 /\ isLoading' = TRUE
                                 /\ pc' = "create"
                                 /\ subReqs' = 1
                                 /\ subFail' = NoFail
                                 /\ UNCHANGED << isInitialized, appState, lastResult,
                                                 operation, waited, pollsIssued, pollReq,
                                                 downloadReq, remoteLast >>
    /\ UNCHANGED << serverEnv, keySelected, envApiKey, uiInputVars, intervals >>

\* Handles the remote can answer the creation call with.
CreateResponses ==
    { [name |-> "operations/1", done |-> d, seq |-> 0, uri |-> u] :
        d \in BOOLEAN, u \in {UNDEFINED, "https://video"} } \
    { [name |-> "operations/1", done |-> FALSE, seq |-> 0, uri |-> "https://video"] }

\* Handles the remote can answer a poll with; it reports completion at the
\* latest on poll MaxPolls.
PollResponses ==
    { [name |-> "operations/1", done |-> d, seq |-> remoteLast.seq + 1, uri |-> u] :
        d \in IF pollsIssued < MaxPolls THEN BOOLEAN ELSE {TRUE},
        u \in {UNDEFINED, "https://video"} } \
    { [name |-> "operations/1", done |-> FALSE, seq |-> remoteLast.seq + 1,
       uri |-> "https://video"] }

\* ai.models.generateVideos settles: with a handle (the rotation timer starts
\* and the loop is entered) or with an error.
CreateResponse ==
    /\ pc = "create"
    /\ \/ \E op \in CreateResponses :
            AfterResponse(op, intervals \cup {[id |-> submissions, messageIndex |-> 0]})
       \/ \E msg \in RemoteErrors :
            /\ Reject(msg, TRUE, subReqs)
            /\ UNCHANGED << loadingMessage, intervals >>
    /\ UNCHANGED << envVars, envApiKey, serverVars, videoVars, uiInputVars, submissions,
                    keyGhostVars >>

\* The poll loop's setTimeout has elapsed.
TimeoutElapsed(ms) == ms >= POLL_INTERVAL_MS

\* Variant of PollDue that sends only the operation's name, not the handle.
PollDue_NameOnly ==
    /\ pc = "wait"
    /\ TimeoutElapsed(waited)
    /\ pollReq' = [operation |-> [NoOperation EXCEPT !.name = operation.name], apiKey |-> key]
    /\ pollsIssued' = pollsIssued + 1
    /\ subReqs' = subReqs + 1
    /\ waited' = 0
    /\ pc' = "poll"
    /\ UNCHANGED << envVars, envApiKey, serverVars, apiKey, isInitialized, appState, error,
                    isLoading, loadingMessage, videoVars, uiInputVars, key, operation,
                    intervals, submissions, downloadReq, remoteLast, subFail,
                    keyGhostVars, lastResult >>

\* The loop body after the wait: the getVideosOperation request.
PollDue ==
    /\ pc = "wait"
    /\ TimeoutElapsed(waited)
    /\ pollReq' = [operation |-> operation, apiKey |-> key]
    /\ pollsIssued' = pollsIssued + 1
    /\ subReqs' = subReqs + 1
    /\ waited' = 0
    /\ pc' = "poll"
    /\ UNCHANGED << envVars, envApiKey, serverVars, apiKey, isInitialized, appState, error,
                    isLoading, loadingMessage, videoVars, uiInputVars, key, operation,
                    intervals, submissions, downloadReq, remoteLast, subFail,
                    keyGhostVars, lastResult >>

\* Variant of PollResponse that swallows a poll error and goes on polling.
PollResponse_Retries ==
    /\ pc = "poll"
    /\ \/ \E op \in PollResponses : AfterResponse(op, intervals)
       \/ \E msg \in RemoteErrors :
            /\ subFail' = [at |-> subReqs, msg |-> msg]
            /\ pollReq' = NoRequest
            /\ pc' = "wait"
            /\ waited' = 0
            /\ UNCHANGED << loadingMessage, intervals, key, operation, remoteLast,
                            downloadReq, pollsIssued, isLoading, apiKey, isInitialized,
                            error, appState, lastResult, subReqs >>
    /\ UNCHANGED << envVars, envApiKey, serverVars, videoVars, uiInputVars, submissions,
                    keyGhostVars >>

\* getVideosOperation settles: with a handle or with an error (the catch block
\* does not clear the rotation timer).
PollResponse ==
    /\ pc = "poll"
    /\ \/ \E op \in PollResponses : AfterResponse(op, intervals)
       \/ \E msg \in RemoteErrors :
            /\ Reject(msg, TRUE, subReqs)
            /\ UNCHANGED << loadingMessage, intervals >>
    /\ UNCHANGED << envVars, envApiKey, serverVars, videoVars, uiInputVars, submissions,
                    keyGhostVars >>

\* The download fetch settles: generateVideoFromImage resolves with the object
\* URL, or throws on a non-OK response or a rejected fetch.
DownloadResponse ==
    /\ pc = "download"
    /\ \E r \in DownloadResponses :
         IF r.kind = "ok"
         THEN Resolve(ObjectUrl)
         ELSE /\ Reject(IF r.kind = "nonok" THEN DownloadFailedMsg(r) ELSE MSG_FETCH_REJECTED,
                        TRUE, subReqs)
              /\ UNCHANGED videoVars
    /\ UNCHANGED << envVars, envApiKey, serverVars, loadingMessage, uiInputVars, intervals,
                    submissions, keyGhostVars >>

\* ROTATE_INTERVAL_MS pass: every active rotation timer's callback runs (in the
\* order the timers were created, so the newest one's message stays), and the
\* pending setTimeout of the poll loop has that much less to go.
Tick ==
    /\ intervals # {} \/ (pc = "wait" /\ ~TimeoutElapsed(waited))
    /\ intervals' = { [t EXCEPT !.messageIndex = (t.messageIndex + 1) % Len(LOADING_MESSAGES)] :
                        t \in intervals }
    /\ IF intervals = {}
       THEN loadingMessage' = loadingMessage
       ELSE \E t \in intervals :
              /\ \A u \in intervals : u.id <= t.id
              /\ loadingMessage' = LOADING_MESSAGES[t.messageIndex + 1]
    /\ waited' = IF pc = "wait" /\ ~TimeoutElapsed(waited)
                 THEN waited + ROTATE_INTERVAL_MS ELSE waited
    /\ UNCHANGED << envVars, envApiKey, serverVars, apiKey, isInitialized, appState, error,
                    isLoading, videoVars, uiInputVars, pc, key, operation, submissions,
                    pollsIssued, pollReq, downloadReq, remoteLast, subReqs, subFail,
                    keyGhostVars, lastResult >>

Next ==
    \/ InitEffect
    \/ SelectImage
    \/ SetPrompt
    \/ handleSelectApiKey
    \/ handleGenerateVideo
    \/ CreateResponse
    \/ PollDue
    \/ PollResponse
    \/ DownloadResponse
    \/ Tick

Spec == Init /\ [][Next]_vars

\* ------------------------------------------------------------------ claims
\* A generateVideoFromImage call settles in this step.
Settles == pc' = "idle" /\ (pc # "idle" \/ submissions' = submissions + 1)
Rejects == Settles /\ lastResult'.kind = "rejected"

\* C1: a getVideosOperation request is issued only from the wait state, for a
\* handle that is not done, once the wait interval has fully elapsed; and a
\* response whose handle carries done never leads back to waiting or polling:
\* the call goes on to the download step (or fails its download-link check).
C1_PollLoopStopsOnDone ==
    [][ /\ (pollsIssued' = pollsIssued + 1) =>
              (pc = "wait" /\ ~operation.done /\ waited >= POLL_INTERVAL_MS)
        /\ (pc' \in {"wait", "poll"}) => ~operation'.done
        /\ (pc \in {"create", "poll"} /\ pc' = "download") => operation'.done
        /\ (pc \in {"create", "poll"} /\ pc' = "wait") => (waited' = 0 /\ ~operation'.done)
      ]_vars

\* A poll response carried done and the call is at the download step.
C1_Witness == pc = "download" /\ operation.done /\ operation.seq >= 1 /\ pollsIssued >= 1

\* A response the handlers have produced.
Produced(res) == res.status # 0

\* C2 as stated: 500 with an error body when GEMINI_API_KEY is unset, 200 with
\* apiKey equal to the configured value whenever it is set.
C2_Original ==
    \A res \in {vercelRes, expressRes} :
        Produced(res) =>
            IF serverEnvKey = UNDEFINED
            THEN res.status = 500 /\ res.body.error # UNDEFINED
            ELSE res.status = 200 /\ res.body.apiKey = serverEnvKey

\* C2 amended: both handlers answer 500 with an error body when GEMINI_API_KEY
\* is unset or empty, and 200 with apiKey equal to the key when it is set to a
\* non-empty value; this holds of every response produced and of the response
\* either handler would give in any state.
C2_KeyEndpoint ==
    \A res \in {vercelRes, expressRes, VercelHandler(serverEnvKey), ExpressRoute(expressApiKey)} :
        Produced(res) =>
            IF serverEnvKey \in {UNDEFINED, ""}
            THEN res.status = 500 /\ res.body.error # UNDEFINED /\ res.body.apiKey = UNDEFINED
            ELSE res.status = 200 /\ res.body.apiKey = serverEnvKey

\* A handler has answered a request while the key was unset.
C2_Witness ==
    /\ serverEnvKey = UNDEFINED
    /\ \/ Produced(vercelRes) /\ vercelRes.status = 500
       \/ Produced(expressRes) /\ expressRes.status = 500

\* C3 as stated: on a failure whose message contains NOT_FOUND the UI shows the
\* invalid-key message and appState becomes key_needed; on every other failure
\* the UI error is the error's own message and appState is unchanged.
C3_Original ==
    [][ Rejects =>
          IF Includes(lastResult'.msg, NOT_FOUND)
          THEN error' = MSG_INVALID_KEY /\ appState' = "key_needed"
          ELSE error' = lastResult'.msg /\ appState' = appState
      ]_vars

\* C3 amended: as stated, except that a failure whose message is empty shows
\* 'An unknown error occurred.'.
C3_InvalidKeyMessage ==
    [][ Rejects =>
          IF Includes(lastResult'.msg, NOT_FOUND)
          THEN error' = MSG_INVALID_KEY /\ appState' = "key_needed"
          ELSE /\ error' = IF lastResult'.msg = << >> THEN MSG_UNKNOWN ELSE lastResult'.msg
               /\ appState' = appState
      ]_vars

\* A generation failed with the not-found error and the UI asks for a key.
C3_Witness ==
    /\ lastResult.kind = "rejected"
    /\ Includes(lastResult.msg, NOT_FOUND)
    /\ error = MSG_INVALID_KEY
    /\ appState = "key_needed"
    /\ subFail.at >= 1

\* C4: once a generation has resolved (the operation was done with a download
\* link and the download succeeded), the UI holds the video: generatedVideoUrl
\* and generatedVideoBlob are set from the resolved value, so the player and
\* the share button are rendered.
C4_VideoPresented ==
    (pc = "idle" /\ lastResult.kind = "resolved") =>
        (Truthy(generatedVideoUrl) /\ Truthy(generatedVideoBlob))

\* C5: initialization in AI Studio with no key selected (hasSelectedApiKey
\* false, or process.env.API_KEY missing) ends in key_needed with isInitialized
\* false and no error shown; a failed production key fetch ends in appState
\* error showing the fetch error's message.
C5_InitDistinguishes ==
    [][ (appState = "initializing" /\ appState' # "initializing") =>
          /\ (aistudio /\ (~keySelected \/ ~Truthy(envApiKey))) =>
                (appState' = "key_needed" /\ ~isInitialized' /\ error' = NoError)
          /\ (~aistudio /\ lastGet'.threw) =>
                /\ appState' = "error"
                /\ error' = lastGet'.msg
                /\ ~isInitialized'
          /\ (~aistudio /\ lastGet'.fetched /\ lastGet'.msg \in {MSG_CONNECT, MSG_NO_KEY}) =>
                lastGet'.threw
          /\ (appState' = "ready") => isInitialized'
      ]_vars

\* AI Studio reported a selected key but process.env.API_KEY was missing.
C5_Witness ==
    /\ aistudio /\ keySelected /\ ~Truthy(envApiKey)
    /\ getKeyCalls = 1 /\ lastGet.msg = MSG_DEV_KEY_MISSING
    /\ appState = "key_needed" /\ error = NoError /\ ~isInitialized

\* C6 as stated: once set, the cached apiKey keeps its value in every later
\* state.
C6_Original == [][ Truthy(apiKey) => apiKey' = apiKey ]_vars

\* C6 amended: once set, the cached apiKey keeps its value until a
\* generateVideoFromImage failure in production whose message contains
\* 'permission' resets it to null (together with isInitialized).
C6_KeyHeldUntilInvalidated ==
    [][ Truthy(apiKey) =>
          \/ apiKey' = apiKey
          \/ /\ apiKey' = NULL
             /\ ~isInitialized'
             /\ ~aistudio
             /\ Rejects
             /\ Includes(lastResult'.msg, PERMISSION)
      ]_vars

\* The cache was filled by a fetch and a permission failure emptied it.
C6_Witness ==
    /\ ~aistudio /\ fetchCount = 1 /\ apiKey = NULL
    /\ lastResult.kind = "rejected" /\ Includes(lastResult.msg, PERMISSION)

\* C7: every getVideosOperation request carries exactly the handle the remote
\* sent last (the creation response for the first poll, the previous poll
\* response afterwards) and the credential resolved when the submission began.
C7_HandleResubmittedVerbatim ==
    (pc = "poll") =>
        /\ pollReq.operation = remoteLast
        /\ pollReq.apiKey = lastGet.value
        /\ Truthy(pollReq.apiKey)

\* A second poll is in flight, carrying the first poll's response.
C7_Witness == pc = "poll" /\ pollsIssued = 2 /\ pollReq.operation.seq = 1

\* C8: a generateVideoFromImage call starts only when none is in flight and
\* isLoading is false; isLoading is true exactly while a call is in flight.
C8_SingleFlow ==
    [][ /\ (submissions' # submissions) => (~isLoading /\ pc = "idle")
        /\ (pc' # "idle") <=> isLoading'
      ]_vars

\* A generation is in flight while the UI is otherwise ready for a submission.
C8_Witness ==
    /\ isLoading /\ pc = "wait"
    /\ appState = "ready" /\ Truthy(imageBase64) /\ Truthy(prompt)
    /\ submissions < MaxSubmissions

\* C9: once a step of a submission has failed, the submission is settled with
\* that error and no remote request of it is in flight or issued afterwards.
C9_NoRetry ==
    (subFail # NoFail) =>
        /\ pc = "idle"
        /\ subReqs = subFail.at
        /\ pollReq = NoRequest /\ downloadReq = NoDownload
        /\ lastResult.kind = "rejected"
        /\ lastResult.msg = subFail.msg

\* A poll request failed after an earlier poll had succeeded.
C9_Witness == subFail.at = 3 /\ subFail.msg = <<"Quota exceeded">> /\ pc = "idle"

\* C10: in production a successful getApiKey call leaves its key in the cache;
\* a call made with the cache filled returns the cached key and issues no
\* request; a call whose fetch fails leaves the cache empty.
C10_KeyCached ==
    [][ (~aistudio /\ getKeyCalls' = getKeyCalls + 1) =>
          /\ Truthy(apiKey) =>
                /\ fetchCount' = fetchCount
                /\ ~lastGet'.threw
                /\ lastGet'.value = apiKey
          /\ ~Truthy(apiKey) => fetchCount' = fetchCount + 1
          /\ ~lastGet'.threw => (Truthy(lastGet'.value) /\ apiKey' = lastGet'.value)
          /\ lastGet'.threw => (lastGet'.fetched /\ ~Truthy(apiKey'))
      ]_vars

\* A second getApiKey call was served from the cache.
C10_Witness == ~aistudio /\ getKeyCalls = 2 /\ fetchCount = 1 /\ Truthy(apiKey)

\* C11: a generateVideoFromImage failure resets apiKey to null and
\* isInitialized to false exactly when the app is not in AI Studio and the
\* error's message contains 'permission'; every other failure, and every
\* failure in AI Studio, leaves both unchanged; the error reaches the caller
\* in all cases.
C11_InvalidationOnlyOnPermission ==
    [][ Rejects =>
          /\ IF ~aistudio /\ Includes(lastResult'.msg, PERMISSION)
             THEN apiKey' = NULL /\ isInitialized' = FALSE
             ELSE apiKey' = apiKey /\ isInitialized' = isInitialized
          /\ subFail'.msg = lastResult'.msg
          /\ error' # NoError
      ]_vars

\* In AI Studio a generation failed with a permission error and the service
\* is still initialised.
C11_Witness ==
    /\ aistudio /\ isInitialized
    /\ lastResult.kind = "rejected" /\ Includes(lastResult.msg, PERMISSION)
    /\ subFail.at >= 1

\* C12: the first submission (with an image and a prompt) made after a key
\* was picked through handleSelectApiKey in AI Studio reaches the remote
\* creation call, using the key now in process.env.API_KEY.
C12_SelectedKeyPickedUp ==
    [][ (justSelected /\ submissions' = submissions + 1) =>
          (pc' = "create" /\ key' = envApiKey /\ Truthy(key'))
      ]_vars

\* C13: a generateVideoFromImage call made while isInitialized is false is
\* rejected with the not-initialised message without calling getApiKey,
\* without any request (to /api/get-key or to the remote), without starting a
\* rotation timer and without changing apiKey or isInitialized.
C13_NotInitializedRejectedEarly ==
    [][ (submissions' = submissions + 1 /\ ~isInitialized) =>
          /\ Rejects
          /\ lastResult'.msg = MSG_NOT_INITIALIZED
          /\ getKeyCalls' = getKeyCalls
          /\ fetchCount' = fetchCount
          /\ subReqs' = 0
          /\ pollReq' = NoRequest /\ downloadReq' = NoDownload
          /\ intervals' = intervals
          /\ loadingMessage' = loadingMessage
          /\ apiKey' = apiKey
          /\ isInitialized' = isInitialized
      ]_vars

\* A call was rejected as not initialised, with a key available to resolve.
C13_Witness ==
    /\ lastResult.kind = "rejected" /\ lastResult.msg = MSG_NOT_INITIALIZED
    /\ ~isInitialized /\ subReqs = 0 /\ pc = "idle"
    /\ aistudio /\ Truthy(envApiKey)

\* C14: whenever the UI's appState is 'ready', the service's isInitialized
\* flag is true.
C14_ReadyImpliesInitialized == (appState = "ready") => isInitialized

\* C15: whenever no generateVideoFromImage call is in flight (every call made
\* has settled), no rotation timer is active.
C15_TimerClearedOnSettle == (pc = "idle") => (intervals = {})

====
